---- MODULE Spec2Model ----
(***************************************************************************)
(* A model of reduct (src/reduct/reduct.py): the trace collector           *)
(* (tempdir, strace_iter) and the materializer (reduct with its nested     *)
(* copy_full, make_link and handle_file).                                  *)
(*                                                                         *)
(* Python strings are modelled as sequences of one-character strings, so   *)
(* that str.startswith, str.find, slicing, str.split and the os.path       *)
(* functions are computed character by character as the library does.      *)
(***************************************************************************)
EXTENDS Integers, Sequences, FiniteSets, TLC

VARIABLES
    fs,       \* the host filesystem
    dryrun,   \* reduct's dryrun argument (--dry)
    trace,    \* the lines strace writes to its log for the traced command
    tracer,   \* how the strace process ends: "ok", "failed" or "nolog"
    pc,       \* where the run is: "start", "collect", "loop", "done", "raised"
    i,        \* the number of log lines the loop of reduct has gone through
    out,      \* the messages printed by this run, in order
    exc,      \* the exception that reached the caller of reduct, or "none"
    tmp,      \* the temporary directory of tempdir: "none", "exists", "removed"
    copies,   \* the <<source, destination>> pairs shutil.copy2 has written
    run,      \* "first", or what the earlier run was: "afterDry", "afterReal"
    fsStart,  \* the filesystem when this run started
    prevOut   \* the messages the earlier run printed

vars == <<fs, dryrun, trace, tracer, pc, i, out, exc, tmp, copies, run,
          fsStart, prevOut>>

\* Longest trace (number of log lines) the tracer writes.
MaxTrace == 2

----------------------------------------------------------------------------
(* Python str primitives *)

SLASH == "/"
QUOTE == "\""
Whitespace == {" ", "\n"}

Min(a, b) == IF a < b THEN a ELSE b
Max(a, b) == IF a > b THEN a ELSE b

\* s.startswith(prefix)
StartsWith(s, prefix) ==
    /\ Len(prefix) <= Len(s)
    /\ SubSeq(s, 1, Len(prefix)) = prefix

\* s.find(c) for a one-character c: 0-based index of the first match, -1 if none
Find(s, c) ==
    IF \E k \in 1..Len(s) : s[k] = c
    THEN (CHOOSE k \in 1..Len(s) : s[k] = c /\ \A j \in 1..(k-1) : s[j] # c) - 1
    ELSE -1

\* s.rfind(c)
RFind(s, c) ==
    IF \E k \in 1..Len(s) : s[k] = c
    THEN (CHOOSE k \in 1..Len(s) : s[k] = c /\ \A j \in (k+1)..Len(s) : s[j] # c) - 1
    ELSE -1

\* A Python slice bound: negative counts from the end, then clamped to 0..len
SliceIndex(s, k) ==
    IF k < 0 THEN Max(Len(s) + k, 0) ELSE Min(k, Len(s))

\* s[lo:hi]
Slice(s, lo, hi) == SubSeq(s, SliceIndex(s, lo) + 1, SliceIndex(s, hi))

\* s[lo:]
SliceFrom(s, lo) == SubSeq(s, SliceIndex(s, lo) + 1, Len(s))

\* s.lstrip("/")
RECURSIVE LStrip(_)
LStrip(s) ==
    IF s # <<>> /\ Head(s) = SLASH THEN LStrip(Tail(s)) ELSE s

\* s.rstrip("/")
RECURSIVE RStrip(_)
RStrip(s) ==
    IF s # <<>> /\ s[Len(s)] = SLASH THEN RStrip(SubSeq(s, 1, Len(s) - 1)) ELSE s

\* s.split(): the whitespace-delimited tokens of s
RECURSIVE SplitWs(_, _)
SplitWs(s, cur) ==
    IF s = <<>> THEN (IF cur = <<>> THEN <<>> ELSE <<cur>>)
    ELSE IF Head(s) \in Whitespace
         THEN (IF cur = <<>> THEN <<>> ELSE <<cur>>) \o SplitWs(Tail(s), <<>>)
         ELSE SplitWs(Tail(s), Append(cur, Head(s)))

Split(s) == SplitWs(s, <<>>)

\* s.split("/"): the components of s, empty ones included
RECURSIVE SplitSlash(_, _)
SplitSlash(s, cur) ==
    IF s = <<>> THEN <<cur>>
    ELSE IF Head(s) = SLASH
         THEN <<cur>> \o SplitSlash(Tail(s), <<>>)
         ELSE SplitSlash(Tail(s), Append(cur, Head(s)))

Components(s) == SplitSlash(s, <<>>)

----------------------------------------------------------------------------
(* os.path (posixpath) *)

\* os.path.join(a, b)
Join(a, b) ==
    IF StartsWith(b, <<SLASH>>) THEN b
    ELSE IF a = <<>> \/ a[Len(a)] = SLASH THEN a \o b
    ELSE a \o <<SLASH>> \o b

AllSlashes(s) == \A k \in 1..Len(s) : s[k] = SLASH

\* os.path.split(p)[0], which is os.path.dirname(p)
SplitHead(head) ==
    IF head # <<>> /\ ~AllSlashes(head) THEN RStrip(head) ELSE head

Dirname(p) == SplitHead(Slice(p, 0, RFind(p, SLASH) + 1))

\* os.path.split(p)[-1]
Basename(p) == SliceFrom(p, RFind(p, SLASH) + 1)

DOT == <<".">>
DOTDOT == <<".", ".">>

\* the component loop of os.path.normpath
RECURSIVE NormComps(_, _, _)

\* new_comps after the component c
NormAdd(c, acc, rooted) ==
    IF c = <<>> \/ c = DOT THEN acc
    ELSE IF c # DOTDOT
            \/ (~rooted /\ acc = <<>>)
            \/ (acc # <<>> /\ acc[Len(acc)] = DOTDOT)
         THEN Append(acc, c)
    ELSE IF acc # <<>> THEN SubSeq(acc, 1, Len(acc) - 1)
    ELSE acc

NormComps(comps, acc, rooted) ==
    IF comps = <<>> THEN acc
    ELSE NormComps(Tail(comps), NormAdd(Head(comps), acc, rooted), rooted)

\* "/".join(comps)
RECURSIVE JoinComps(_)
JoinComps(comps) ==
    IF comps = <<>> THEN <<>>
    ELSE IF Len(comps) = 1 THEN comps[1]
    ELSE comps[1] \o <<SLASH>> \o JoinComps(Tail(comps))

\* os.path.normpath(p)
NormJoin(body, rooted) ==
    IF rooted THEN <<SLASH>> \o body
    ELSE IF body = <<>> THEN DOT ELSE body

NormRooted(p, rooted) ==
    NormJoin(JoinComps(NormComps(Components(p), <<>>, rooted)), rooted)

NormPath(p) ==
    IF p = <<>> THEN DOT ELSE NormRooted(p, StartsWith(p, <<SLASH>>))

\* os.getcwd()
Cwd == <<"/", "w">>

\* os.path.abspath(p)
AbsPath(p) ==
    IF StartsWith(p, <<SLASH>>) THEN NormPath(p) ELSE NormPath(Join(Cwd, p))

----------------------------------------------------------------------------
(* The host filesystem: a function from normalized absolute paths to nodes. *)
(* A node is a directory, a regular file with its bytes, or a symbolic     *)
(* link with its target string.                                            *)

NoNode == [kind |-> "none"]
DirNode == [kind |-> "dir"]
FileNode(d) == [kind |-> "file", data |-> d]
LinkNode(t) == [kind |-> "link", target |-> t]

NodeAt(f, p) == IF p \in DOMAIN f THEN f[p] ELSE NoNode

\* f with node n written at path p
Put(f, p, n) == [q \in (DOMAIN f) \cup {p} |-> IF q = p THEN n ELSE f[q]]

\* posixpath._joinrealpath: resolve the components of rest, one by one, on
\* top of the resolved prefix path; seen holds the links being resolved
RECURSIVE JoinRealPath(_, _, _, _)

\* ".." : the parent of the resolved prefix
RealParent(path) ==
    IF path = <<>> THEN DOTDOT
    ELSE IF Basename(path) = DOTDOT
         THEN Join(Join(Dirname(path), DOTDOT), DOTDOT)
         ELSE Dirname(path)

\* after the link's own target has been resolved to r
RealAfterLink(f, r, more, seen) ==
    IF ~r.ok
    THEN [path |-> Join(r.path, JoinComps(more)), ok |-> FALSE]
    ELSE JoinRealPath(f, r.path, more, seen)

\* newpath = join(path, name): followed when it is a link, kept otherwise
RealName(f, path, newpath, more, seen) ==
    IF NodeAt(f, newpath).kind # "link"
    THEN JoinRealPath(f, newpath, more, seen)
    ELSE IF newpath \in seen
         THEN [path |-> Join(newpath, JoinComps(more)), ok |-> FALSE]
    ELSE RealAfterLink(f,
             JoinRealPath(f,
                 IF StartsWith(f[newpath].target, <<SLASH>>) THEN <<SLASH>> ELSE path,
                 Components(f[newpath].target), seen \cup {newpath}),
             more, seen)

RealStep(f, path, name, more, seen) ==
    IF name = <<>> \/ name = DOT THEN JoinRealPath(f, path, more, seen)
    ELSE IF name = DOTDOT THEN JoinRealPath(f, RealParent(path), more, seen)
    ELSE RealName(f, path, Join(path, name), more, seen)

JoinRealPath(f, path, rest, seen) ==
    IF rest = <<>> THEN [path |-> path, ok |-> TRUE]
    ELSE RealStep(f, path, Head(rest), Tail(rest), seen)

Resolve(f, p) ==
    JoinRealPath(f, IF StartsWith(p, <<SLASH>>) THEN <<SLASH>> ELSE <<>>,
                 Components(p), {})

\* os.path.realpath(p)
RealPath(f, p) == AbsPath(Resolve(f, p).path)

\* os.stat(p): the node p names, symbolic links followed
StatOf(f, r) == IF r.ok THEN NodeAt(f, AbsPath(r.path)) ELSE NoNode
Stat(f, p) == StatOf(f, Resolve(f, p))

\* the path os.lstat(p) looks at: p with the links of its directory resolved
LPathOf(f, q) == Join(RealPath(f, Dirname(q)), Basename(q))
LPath(f, p) == LPathOf(f, AbsPath(p))

\* os.lstat(p)
LStat(f, p) == NodeAt(f, LPath(f, p))

IsFile(f, p) == Stat(f, p).kind = "file"
IsDir(f, p) == Stat(f, p).kind = "dir"
IsLink(f, p) == LStat(f, p).kind = "link"
Exists(f, p) == Stat(f, p).kind # "none"

\* the result of a filesystem call: the error it raised, if any, and the
\* filesystem it leaves
Res(e, f) == [err |-> e, fs |-> f]

\* a new node n at q, in the directory whose node is parent
Create(f, q, parent, n) ==
    IF NodeAt(f, q).kind # "none" THEN Res("EEXIST", f)
    ELSE IF parent.kind = "none" THEN Res("ENOENT", f)
    ELSE IF parent.kind # "dir" THEN Res("ENOTDIR", f)
    ELSE Res("none", Put(f, q, n))

CreateAt(f, q, n) == Create(f, q, Stat(f, Dirname(q)), n)

\* os.mkdir(name)
Mkdir(f, name) == CreateAt(f, LPath(f, name), DirNode)

\* os.symlink(target, name)
Symlink(f, target, name) == CreateAt(f, LPath(f, name), LinkNode(target))

\* os.makedirs(name): the missing ancestors first, then name itself
RECURSIVE MakeDirs(_, _)

MakeDirsLeaf(up, name) ==
    IF up.err \notin {"none", "EEXIST"} THEN up ELSE Mkdir(up.fs, name)

MakeDirsFrom(f, name, head, tail) ==
    MakeDirsLeaf(IF head # <<>> /\ tail # <<>> /\ ~Exists(f, head)
                 THEN MakeDirs(f, head)
                 ELSE Res("none", f),
                 name)

MakeDirsSplit(f, name, head, tail) ==
    IF tail = <<>>
    THEN MakeDirsFrom(f, name, Dirname(head), Basename(head))
    ELSE MakeDirsFrom(f, name, head, tail)

MakeDirs(f, name) == MakeDirsSplit(f, name, Dirname(name), Basename(name))

\* shutil.copyfile onto q, in the directory whose node is parent
WriteIn(f, src, q, parent) ==
    IF NodeAt(f, q).kind = "dir" THEN Res("EISDIR", f)
    ELSE IF parent.kind = "none" THEN Res("ENOENT", f)
    ELSE IF parent.kind # "dir" THEN Res("ENOTDIR", f)
    ELSE Res("none", Put(f, q, FileNode(Stat(f, src).data)))

WriteAt(f, src, q) == WriteIn(f, src, q, Stat(f, Dirname(q)))

WriteFile(f, src, r) ==
    IF ~r.ok THEN Res("ELOOP", f) ELSE WriteAt(f, src, AbsPath(r.path))

\* shutil.copy2(src, dst): into dst when dst is a directory, else onto dst
Copy2(f, src, dst) ==
    WriteFile(f, src,
              Resolve(f, IF IsDir(f, dst) THEN Join(dst, Basename(src)) ELSE dst))

\* the non-empty components of abspath(p), as os.path.relpath lists them
NonEmpty(comps) == SelectSeq(comps, LAMBDA c : c # <<>>)

\* len(os.path.commonprefix([a, b])) on component lists
RECURSIVE CommonLen(_, _)
CommonLen(a, b) ==
    IF a # <<>> /\ b # <<>> /\ Head(a) = Head(b)
    THEN 1 + CommonLen(Tail(a), Tail(b))
    ELSE 0

\* os.path.relpath(path, start)
RelJoin(rel) == IF rel = <<>> THEN DOT ELSE JoinComps(rel)

RelFrom(sl, pl, k) ==
    RelJoin([j \in 1..(Len(sl) - k) |-> DOTDOT] \o SubSeq(pl, k + 1, Len(pl)))

RelLists(sl, pl) == RelFrom(sl, pl, CommonLen(sl, pl))

RelPath(path, start) ==
    RelLists(NonEmpty(Components(AbsPath(start))), NonEmpty(Components(AbsPath(path))))

----------------------------------------------------------------------------
(* reduct(source, destination, dryrun, *args) *)

\* --source and --dest
Source == <<"/", "s">>
Destination == <<"/", "d">>

\* One printed message
Msg(m, a, b) == [msg |-> m, a |-> a, b |-> b]

\* The state the nested functions of reduct work on: the filesystem, the
\* printed output, the exception raised so far and the copies made
Say(st, m) == [st EXCEPT !.out = Append(@, m)]

\* the filesystem call's result r taken into the state s
Apply(s, r) == [s EXCEPT !.fs = r.fs, !.err = r.err]

\* DoMakeDirs without its test of dryrun
DoMakeDirs_always(s, target) == Apply(s, MakeDirs(s.fs, target))

\* "if not dryrun: os.makedirs(target)"
DoMakeDirs(s, target) ==
    IF dryrun THEN s ELSE Apply(s, MakeDirs(s.fs, target))

\* "if not os.path.isdir(target): print; if not dryrun: os.makedirs(target)"
MakeTargetDirs(st, target) ==
    IF ~IsDir(st.fs, target)
    THEN DoMakeDirs(Say(st, Msg("Making dirs to", target, <<>>)), target)
    ELSE st

\* chunk = sourcefile[len(source):].lstrip("/")
Chunk(sourcefile) == LStrip(SliceFrom(sourcefile, Len(Source)))

\* target = os.path.join(destination, os.path.dirname(chunk))
TargetDir(sourcefile) == Join(Destination, Dirname(Chunk(sourcefile)))

\* os.path.join(target, os.path.split(chunk)[-1])
TargetFile(sourcefile) == Join(TargetDir(sourcefile), Basename(Chunk(sourcefile)))

\* the copy made: the state with the result r of shutil.copy2
Copied(s, r, sourcefile) ==
    [s EXCEPT !.fs = r.fs, !.err = r.err,
              !.copies = IF r.err = "none"
                         THEN Append(@, <<sourcefile, AbsPath(TargetFile(sourcefile))>>)
                         ELSE @]

\* DoCopy copying into the destination root instead of target
DoCopy_flat(s, sourcefile) ==
    IF dryrun THEN s
    ELSE Copied(s, Copy2(s.fs, sourcefile, Destination), sourcefile)

\* "if not dryrun: shutil.copy2(sourcefile, target)"
DoCopy(s, sourcefile) ==
    IF dryrun THEN s
    ELSE Copied(s, Copy2(s.fs, sourcefile, TargetDir(sourcefile)), sourcefile)

\* CopyFile without its test that the destination file exists
CopyFile_always(s, sourcefile) ==
    IF s.err # "none" THEN s
    ELSE DoCopy(Say(s, Msg("Copying", sourcefile, <<>>)), sourcefile)

\* copy_full after its directory has been seen to
CopyFile(s, sourcefile) ==
    IF s.err # "none" THEN s
    ELSE IF ~IsFile(s.fs, TargetFile(sourcefile))
         THEN DoCopy(Say(s, Msg("Copying", sourcefile, <<>>)), sourcefile)
    ELSE Say(s, Msg("Already exists", TargetFile(sourcefile), <<>>))

copy_full(st, sourcefile) ==
    CopyFile(MakeTargetDirs(st, TargetDir(sourcefile)), sourcefile)

RECURSIVE handle_file(_, _)

\* link_name = os.path.join(os.path.join(destination, dirname), filename)
LinkName(sourcelink) == Join(TargetDir(sourcelink), Basename(sourcelink))

\* new_target: the link's target, relative to the link's directory
NewTarget(sourcelink, link_target) ==
    Join(RelPath(Dirname(link_target), Dirname(sourcelink)), Basename(link_target))

\* "if not dryrun: os.symlink(new_target, link_name)"
DoLink(s, new_target, link_name) ==
    IF dryrun THEN s ELSE Apply(s, Symlink(s.fs, new_target, link_name))

\* make_link after the link's directory has been seen to
LinkFile(s, new_target, link_name) ==
    IF s.err # "none" THEN s
    ELSE IF ~IsFile(s.fs, link_name)
         THEN DoLink(Say(s, Msg("Making softlink", link_name, new_target)),
                     new_target, link_name)
    ELSE Say(s, Msg("Already exists", link_name, <<>>))

\* make_link after the link's target has been handled
LinkAfterTarget(s, sourcelink, link_target) ==
    IF s.err # "none" THEN s
    ELSE LinkFile(MakeTargetDirs(s, TargetDir(sourcelink)),
                  NewTarget(sourcelink, link_target), LinkName(sourcelink))

\* make_link with link_target = os.path.realpath(sourcelink)
LinkTo(st, sourcelink, link_target) ==
    LinkAfterTarget(IF StartsWith(link_target, Source)
                    THEN handle_file(st, link_target)
                    ELSE st,
                    sourcelink, link_target)

make_link(st, sourcelink) == LinkTo(st, sourcelink, RealPath(st.fs, sourcelink))

handle_file(st, path) ==
    IF IsLink(st.fs, path) THEN make_link(st, path) ELSE copy_full(st, path)

\* line.split(): fewer than two tokens raises IndexError at line.split()[1]
Tokens(line) == Split(line)

\* the text the loop takes for the path: between the first two double quotes
\* of syscall, the second token of the line
QuotedFrom(syscall, left) ==
    Slice(syscall, left, left + Find(SliceFrom(syscall, left), QUOTE))

QuotedIn(syscall) == QuotedFrom(syscall, Find(syscall, QUOTE) + 1)

ExtractPath(line) == QuotedIn(Tokens(line)[2])

\* path = os.path.realpath(os.path.abspath(path))
LinePath(f, line) == RealPath(f, AbsPath(ExtractPath(line)))

\* "if path.startswith(source)"
UnderSource(path) == StartsWith(path, Source)

----------------------------------------------------------------------------
(* The environment of one invocation: the source tree, the destination     *)
(* tree as it is found, and the log the tracer writes.                     *)

P_root == <<"/">>
P_s == <<"/", "s">>
P_sa == <<"/", "s", "/", "a">>
P_sb == <<"/", "s", "/", "b">>
P_sbc == <<"/", "s", "/", "b", "/", "c">>
P_sl == <<"/", "s", "/", "l">>
P_sg == <<"/", "s", "/", "g">>
P_s2 == <<"/", "s", "2">>
P_s2x == <<"/", "s", "2", "/", "x">>
P_e == <<"/", "e">>
P_d == <<"/", "d">>
P_da == <<"/", "d", "/", "a">>
P_db == <<"/", "d", "/", "b">>
P_dbc == <<"/", "d", "/", "b", "/", "c">>

\* The tree around the source root: the regular files /s/a and /s/b/c,
\* the link /s/l -> a, the sibling /s2/x of the source root, /e outside it;
\* /s/g has been deleted since the trace was taken
SourceTree ==
    (P_root :> DirNode) @@ (Cwd :> DirNode) @@ (P_s :> DirNode)
    @@ (P_sa :> FileNode("A")) @@ (P_sb :> DirNode) @@ (P_sbc :> FileNode("C"))
    @@ (P_sl :> LinkNode(<<"a">>))
    @@ (P_s2 :> DirNode) @@ (P_s2x :> FileNode("X")) @@ (P_e :> FileNode("E"))

\* a destination tree: the nodes at /d, /d/a and /d/b
DestTree(d, a, b) ==
    [p \in {q \in {P_d, P_da, P_db} :
               CASE q = P_d -> d.kind # "none"
                 [] q = P_da -> a.kind # "none"
                 [] q = P_db -> b.kind # "none"} |->
        CASE p = P_d -> d
          [] p = P_da -> a
          [] p = P_db -> b]

\* The destination trees a run can find: nothing at /d, a file in its place,
\* a directory that holds a stale file /d/a, a directory that holds a file
\* where the directory /d/b is to be
DestTrees ==
    {DestTree(NoNode, NoNode, NoNode),
     DestTree(FileNode("Z"), NoNode, NoNode),
     DestTree(DirNode, FileNode("Z"), NoNode),
     DestTree(DirNode, NoNode, FileNode("Z"))}

InitTrees == {SourceTree @@ t : t \in DestTrees}

\* `<pid> <syscall>("<path>") = ...`: the path quoted in the second token
CallLine(p) == <<"1", " ", "o", "(", QUOTE>> \o p \o <<QUOTE, ")", "\n">>

\* `<pid> <syscall>(<arg>, "<path>") = ...`: the path quoted in the third token
AtLine(p) == <<"1", " ", "o", "(", "A", ",", " ", QUOTE>> \o p \o <<QUOTE, ")", "\n">>

\* an empty line, as a truncated log ends with
BlankLine == <<"\n">>

Lines ==
    {CallLine(p) : p \in {P_sa, P_sbc, P_sl, P_sg, P_s2x, P_e}}
    \cup {AtLine(P_sa), BlankLine}

Traces == UNION {[1..n -> Lines] : n \in 0..MaxTrace}

TracerOutcomes == {"ok", "failed", "nolog"}

\* the result of shutil.rmtree(dirname) in tempdir
RmtreeOutcomes == {"ok", "ENOENT"}

----------------------------------------------------------------------------
(* The run *)

Init ==
    /\ fs \in InitTrees
    /\ dryrun \in BOOLEAN
    /\ trace \in Traces
    /\ tracer \in TracerOutcomes
    /\ pc = "start"
    /\ i = 0
    /\ out = <<>>
    /\ exc = "none"
    /\ tmp = "none"
    /\ copies = <<>>
    /\ run = "first"
    /\ fsStart = fs
    /\ prevOut = <<>>

\* the state the nested functions start from
Now == [fs |-> fs, out |-> out, err |-> "none", copies |-> copies]

\* reduct up to the loop: make the destination root, print the command
Begun(s) ==
    /\ fs' = s.fs
    /\ IF s.err = "none"
       THEN /\ out' = Append(s.out, Msg("Executing", <<>>, <<>>))
            /\ pc' = "collect"
            /\ exc' = exc
       ELSE /\ out' = s.out
            /\ pc' = "raised"
            /\ exc' = s.err

Begin ==
    /\ pc = "start"
    /\ Begun(MakeTargetDirs(Now, Destination))
    /\ UNCHANGED <<dryrun, trace, tracer, i, tmp, copies, run, fsStart, prevOut>>

\* Collect without the except clause for CalledProcessError
Collect_uncaught ==
    /\ pc = "collect"
    /\ tmp' = "exists"
    /\ out' = Append(out, Msg("Running", <<>>, <<>>))
    /\ IF tracer = "ok"
       THEN pc' = "loop" /\ exc' = exc
       ELSE pc' = "raised" /\ exc' = "CalledProcessError"
    /\ UNCHANGED <<fs, dryrun, trace, tracer, i, copies, run, fsStart, prevOut>>

\* strace_iter up to its first yield: the temporary directory, the tracer
\* (its non-zero exit is printed), the log file opened
Collect ==
    /\ pc = "collect"
    /\ tmp' = "exists"
    /\ out' = out \o <<Msg("Running", <<>>, <<>>)>>
                \o (IF tracer = "ok" THEN <<>>
                    ELSE <<Msg("CalledProcessError", <<>>, <<>>)>>)
    /\ IF tracer = "nolog"
       THEN pc' = "raised" /\ exc' = "IOError"
       ELSE pc' = "loop" /\ exc' = exc
    /\ UNCHANGED <<fs, dryrun, trace, tracer, i, copies, run, fsStart, prevOut>>

\* the line the loop is at
AtLoop == pc = "loop" /\ i < Len(trace)
Line == trace[i + 1]

\* a line of fewer than two tokens: IndexError, "Failed on", break; the
\* generator is closed at its yield and tempdir never resumes
MalformedLine ==
    /\ AtLoop
    /\ Len(Tokens(Line)) < 2
    /\ out' = Append(out, Msg("Failed on", Line, <<>>))
    /\ pc' = "done"
    /\ UNCHANGED <<fs, dryrun, trace, tracer, i, exc, tmp, copies, run, fsStart, prevOut>>

\* NotAFile with break in the place of continue
NotAFile_break ==
    /\ AtLoop
    /\ Len(Tokens(Line)) >= 2
    /\ ~IsFile(fs, LinePath(fs, Line))
    /\ out' = Append(out, Msg("isn't a file", LinePath(fs, Line), <<>>))
    /\ pc' = "done"
    /\ UNCHANGED <<fs, dryrun, trace, tracer, i, exc, tmp, copies, run, fsStart, prevOut>>

\* the path is no regular file: printed, continue
NotAFile ==
    /\ AtLoop
    /\ Len(Tokens(Line)) >= 2
    /\ ~IsFile(fs, LinePath(fs, Line))
    /\ out' = Append(out, Msg("isn't a file", LinePath(fs, Line), <<>>))
    /\ i' = i + 1
    /\ UNCHANGED <<fs, dryrun, trace, tracer, pc, exc, tmp, copies, run, fsStart, prevOut>>

\* the path does not start with source: printed
Ignored ==
    /\ AtLoop
    /\ Len(Tokens(Line)) >= 2
    /\ IsFile(fs, LinePath(fs, Line))
    /\ ~UnderSource(LinePath(fs, Line))
    /\ out' = Append(out, Msg("Ignoring", LinePath(fs, Line), <<>>))
    /\ i' = i + 1
    /\ UNCHANGED <<fs, dryrun, trace, tracer, pc, exc, tmp, copies, run, fsStart, prevOut>>

\* the path starts with source: handle_file; an error of the filesystem
\* leaves reduct, the generator is dropped and tempdir never resumes
HandledTo(s) ==
    /\ fs' = s.fs
    /\ out' = s.out
    /\ copies' = s.copies
    /\ IF s.err = "none"
       THEN i' = i + 1 /\ pc' = pc /\ exc' = exc
       ELSE i' = i /\ pc' = "raised" /\ exc' = s.err

Handled ==
    /\ AtLoop
    /\ Len(Tokens(Line)) >= 2
    /\ IsFile(fs, LinePath(fs, Line))
    /\ UnderSource(LinePath(fs, Line))
    /\ HandledTo(handle_file(Now, LinePath(fs, Line)))
    /\ UNCHANGED <<dryrun, trace, tracer, tmp, run, fsStart, prevOut>>

\* the log is exhausted: strace_iter leaves its with blocks and tempdir
\* resumes after its yield; when the directory is gone already rmtree raises
\* OSError, the handler reads errno.ENOENT, and errno is not imported
EndOfTrace ==
    /\ pc = "loop"
    /\ i = Len(trace)
    /\ \E rm \in RmtreeOutcomes :
          IF rm = "ok"
          THEN tmp' = "removed" /\ pc' = "done" /\ exc' = exc
          ELSE /\ tmp' = "removed"
               /\ pc' = "raised"
               /\ exc' = "NameError"
    /\ UNCHANGED <<fs, dryrun, trace, tracer, i, out, copies, run, fsStart, prevOut>>

\* the tool is run again on what the first run left, now without --dry:
\* same command, same source tree, same destination
Rerun ==
    /\ pc = "done"
    /\ run = "first"
    /\ run' = (IF dryrun THEN "afterDry" ELSE "afterReal")
    /\ dryrun' = FALSE
    /\ pc' = "start"
    /\ i' = 0
    /\ prevOut' = out
    /\ out' = <<>>
    /\ copies' = <<>>
    /\ tmp' = "none"
    /\ fsStart' = fs
    /\ UNCHANGED <<fs, trace, tracer, exc>>

Next ==
    \/ Begin
    \/ Collect
    \/ MalformedLine
    \/ NotAFile
    \/ Ignored
    \/ Handled
    \/ EndOfTrace
    \/ Rerun

Spec == Init /\ [][Next]_vars

----------------------------------------------------------------------------
(* Vocabulary of the properties *)

\* p lies under root by whole path components
Under(p, root) == p = root \/ StartsWith(p, root \o <<SLASH>>)

\* the first double-quoted substring of the whole line
FirstQuoted(line) == QuotedIn(line)

\* a line of at least two tokens
TwoTokens(line) == Len(Tokens(line)) >= 2

\* `<pid> <syscall>("<path>"...`: the quoted path is whole inside token two
CallShaped(line) ==
    /\ TwoTokens(line)
    /\ Find(Tokens(line)[2], QUOTE) >= 0
    /\ ExtractPath(line) = FirstQuoted(line)

\* the path a line names, made absolute
Named(line) == AbsPath(FirstQuoted(line))

\* the part of a filesystem under the destination root
DestPart(f) == [q \in {r \in DOMAIN f : Under(r, Destination)} |-> f[q]]

\* the errors the filesystem calls of copy_full and make_link raise
FsErrors == {"EEXIST", "ENOENT", "ENOTDIR", "EISDIR", "ELOOP"}

\* the messages that announce a change of the destination
Mutating == {"Making dirs to", "Copying", "Making softlink"}

Said(o, m) == \E k \in 1..Len(o) : o[k].msg = m
SaidOf(o, m, a) == \E k \in 1..Len(o) : o[k].msg = m /\ o[k].a = a

\* the destinations shutil.copy2 has written in this run
CopiedTo(q) == \E k \in 1..Len(copies) : copies[k][2] = q

\* the number of lines before the first one of fewer than two tokens
RECURSIVE UsableLen(_)
UsableLen(t) ==
    IF t = <<>> \/ ~TwoTokens(Head(t)) THEN 0 ELSE 1 + UsableLen(Tail(t))

----------------------------------------------------------------------------
(* C1 *)

\* q is the destination root, or the place or an ancestor of the place of
\* a path of the trace that lies under the source root
Accounted(q) ==
    \/ q = Destination
    \/ \E j \in 1..Len(trace) :
          /\ TwoTokens(trace[j])
          /\ Under(RealPath(fs, Named(trace[j])), Source)
          /\ Under(AbsPath(TargetFile(RealPath(fs, Named(trace[j])))), q)

\* C1: nothing is created under the destination root for a path of the trace
\* whose normalized form is not under the source root by path components:
\* every new node of the destination belongs to a path that is under it.
C1_NothingForPathsOutsideSource ==
    \A q \in DOMAIN fs :
        (Under(q, Destination) /\ q \notin DOMAIN fsStart) => Accounted(q)

----------------------------------------------------------------------------
(* C2 *)

\* the line names a link under the source root that resolves to a regular
\* file under the source root
NamesLink(line) ==
    /\ CallShaped(line)
    /\ Under(Named(line), Source)
    /\ IsLink(fs, Named(line))
    /\ IsFile(fs, Named(line))
    /\ Under(RealPath(fs, Named(line)), Source)

\* the destination holds the link l, pointing at the copy of its target t
LinkPreserved(l, t) ==
    /\ LStat(fs, TargetFile(l)).kind = "link"
    /\ RealPath(fs, TargetFile(l)) = AbsPath(TargetFile(t))
    /\ LStat(fs, TargetFile(t)).kind = "file"

\* C2: after a run without --dry that went through the whole trace, every
\* link L -> T of the trace, both under the source root, is a link in the
\* destination at relative(L) that resolves to the copy of T at relative(T).
C2_SymlinkPreserved ==
    (pc = "done" /\ ~dryrun /\ i = Len(trace)) =>
        \A j \in 1..Len(trace) :
            NamesLink(trace[j]) =>
                LinkPreserved(Named(trace[j]), RealPath(fs, Named(trace[j])))

----------------------------------------------------------------------------
(* C3 *)

\* the line names an existing regular file (no link) under the source root
NamesSourceFile(line) ==
    /\ TwoTokens(line)
    /\ Find(line, QUOTE) >= 0
    /\ Under(Named(line), Source)
    /\ RealPath(fs, Named(line)) = Named(line)
    /\ LStat(fs, Named(line)).kind = "file"

SameContent(src, dst) ==
    /\ IsFile(fs, dst)
    /\ Stat(fs, dst).data = Stat(fs, src).data

\* C3 as claimed: after a completed run without --dry, every regular file of
\* the trace under the source root is in the destination with the same
\* content, whatever the destination held before and wherever its line is.
C3_ContentFidelityAlways ==
    (pc = "done" /\ ~dryrun) =>
        \A j \in 1..Len(trace) :
            NamesSourceFile(trace[j]) =>
                SameContent(Named(trace[j]), TargetFile(Named(trace[j])))

\* the loop took, from a line it went through, a path that resolves to a
\* regular file starting with the source root
LoopFile(j) ==
    /\ IsFile(fs, LinePath(fs, trace[j]))
    /\ UnderSource(LinePath(fs, trace[j]))

\* the destination file of src is there: with the content of src when this
\* run copied it, and as the run found it when it did not
Materialized(src, dst) ==
    /\ IsFile(fs, dst)
    /\ <<src, dst>> \in {copies[k] : k \in 1..Len(copies)}
           => Stat(fs, dst).data = Stat(fs, src).data
    /\ ~CopiedTo(dst) => Stat(fs, dst) = Stat(fsStart, dst)

\* C3, amended: in a run without --dry, once the loop has gone through a
\* line whose path resolves to a regular file P starting with the source
\* root, the destination file of P exists; it has the content of P when
\* this run copied P there, and it is the file the run found, untouched,
\* when the run copied nothing there.
C3_ContentFidelity ==
    ~dryrun =>
        \A j \in 1..i :
            LoopFile(j) =>
                Materialized(LinePath(fs, trace[j]),
                             AbsPath(TargetFile(LinePath(fs, trace[j]))))

\* a fresh copy in a new directory next to a stale file that was left alone
C3_Witness ==
    /\ pc = "done" /\ ~dryrun /\ i = Len(trace)
    /\ CopiedTo(P_dbc) /\ NodeAt(fs, P_dbc) = FileNode("C")
    /\ ~CopiedTo(P_da) /\ SaidOf(out, "Already exists", P_da)
    /\ NodeAt(fs, P_da) = FileNode("Z")

----------------------------------------------------------------------------
(* C4 *)

\* C4: with --dry the destination tree stays as the run found it: the root is
\* not created, no directory is made, no file copied and no link made.
C4_DryRunChangesNothing ==
    dryrun => DestPart(fs) = DestPart(fsStart)

\* a dry run that announced the destination root, a directory and a copy
C4_Witness ==
    /\ dryrun /\ pc = "done" /\ i = Len(trace)
    /\ SaidOf(out, "Making dirs to", Destination)
    /\ SaidOf(out, "Making dirs to", P_db)
    /\ SaidOf(out, "Copying", P_sbc)
    /\ P_d \notin DOMAIN fs

----------------------------------------------------------------------------
(* C5 *)

\* C5: once the run has ended, by return or by exception, the temporary
\* directory it made is gone, and a failing removal has not surfaced as an
\* error of its own.
C5_TempDirRemoved ==
    (pc \in {"done", "raised"} /\ tmp # "none") =>
        (tmp = "removed" /\ exc # "NameError")

----------------------------------------------------------------------------
(* C6 *)

----------------------------------------------------------------------------
(* C7 *)

\* C7: a second run without --dry, after a first one that returned, on the
\* same trace, source and destination, raises no filesystem error, announces
\* and makes no directory, copy or link, and leaves the destination as it
\* was; and within one run no destination file is copied twice.
C7_Idempotent ==
    /\ run = "afterReal" =>
          /\ DestPart(fs) = DestPart(fsStart)
          /\ copies = <<>>
          /\ exc \notin FsErrors
          /\ \A k \in 1..Len(out) : out[k].msg \notin Mutating
    /\ \A k1, k2 \in 1..Len(copies) : k1 < k2 => copies[k1][2] # copies[k2][2]

\* the second run found the copies of the first, made for a trace that
\* names the same file twice
C7_Witness ==
    /\ run = "afterReal" /\ pc = "done" /\ i = Len(trace)
    /\ Len(trace) >= 2 /\ trace[1] = trace[2]
    /\ SaidOf(prevOut, "Copying", P_sbc)
    /\ SaidOf(prevOut, "Already exists", P_dbc)
    /\ SaidOf(out, "Already exists", P_dbc)

----------------------------------------------------------------------------
(* C8 *)

\* C8: a dry run prints the messages a real run prints from the same state:
\* the real run made after a dry run, which left that state as it was,
\* prints what the dry run printed.
C8_DryRunSameMessages ==
    (run = "afterDry" /\ pc = "done") => out = prevOut

----------------------------------------------------------------------------
(* C9 *)

\* the line names, as the first argument of its call, a path under the
\* source root that is no regular file any more
NamesDeleted(line) ==
    /\ CallShaped(line)
    /\ Under(Named(line), Source)
    /\ ~IsFile(fs, Named(line))

\* the line names, as the first argument of its call, an existing regular
\* file under the source root
NamesSourceFileCall(line) == CallShaped(line) /\ NamesSourceFile(line)

\* C9: a line of the trace that names a deleted path under the source root
\* neither raises nor ends the loop: no filesystem error is raised at it, a
\* run that returns has gone past it, and in a run without --dry the regular
\* files under the source root named by the later lines the loop went
\* through are in the destination.
C9_DeletedPathSkipped ==
    \A j \in 1..UsableLen(trace) :
        NamesDeleted(trace[j]) =>
            /\ (pc = "raised" /\ tmp = "exists" /\ exc \in FsErrors) => i + 1 # j
            /\ pc = "done" => i >= j
            /\ ~dryrun =>
                  \A k \in (j + 1)..i :
                      NamesSourceFileCall(trace[k]) =>
                          IsFile(fs, TargetFile(Named(trace[k])))

\* a deleted path first, then a file that this run copied
C9_Witness ==
    /\ pc = "done" /\ ~dryrun /\ i = Len(trace) /\ i >= 2
    /\ NamesDeleted(trace[1])
    /\ NamesSourceFileCall(trace[2])
    /\ CopiedTo(AbsPath(TargetFile(Named(trace[2]))))
    /\ SaidOf(out, "isn't a file", P_sg)

----------------------------------------------------------------------------
(* C10 *)

\* C10: the path the loop extracts from a line of at least two tokens that
\* holds a double-quoted string is the text between the first and the second
\* double quote of the whole line.
C10_FirstQuotedExtracted ==
    \A j \in 1..i :
        (TwoTokens(trace[j]) /\ Find(trace[j], QUOTE) >= 0) =>
            ExtractPath(trace[j]) = FirstQuoted(trace[j])

====
